---- MODULE Spec2Model ----
(***************************************************************************)
(* Practice-exam backend: the question-flow agent (app/services/ai_agent), *)
(* its HTTP routes (app/routers/sessions), the generation-status tracker   *)
(* (app/routers/assessments), the audio cache (app/services/azure_speech)  *)
(* and the question randomizer (app/services/question_randomizer).         *)
(* Each component has its own specification over the                       *)
(* module's variables; the variables of the other components stay at       *)
(* their initial value.                                                    *)
(*                                                                         *)
(* The agent is modelled at its public operations (the methods of          *)
(* QuestionFlowAgent), which take any value the schemas accept: a          *)
(* PracticeAssessment with an empty question list and an empty             *)
(* selected_answer_ids list are both valid arguments.                      *)
(*                                                                         *)
(* Timestamps (start_time, last_activity, answered_at), texts, reference    *)
(* links and the selected_answer_ids copied into a UserAnswer are not      *)
(* modelled: no operation reads them back.                                 *)
(***************************************************************************)
EXTENDS Integers, Sequences, FiniteSets, TLC

VARIABLES
    sessions,        \* QuestionFlowAgent.sessions: session id -> UserSession
    assessments,     \* QuestionFlowAgent.assessments: the assessment ids stored
    user_answers,    \* QuestionFlowAgent.user_answers: session id -> UserAnswer list
    openai_service,  \* TRUE iff QuestionFlowAgent.openai_service is configured
    suspended,       \* submit_answer calls waiting on enhance_question_explanation
    next_session,    \* number of session ids handed out so far (uuid4: never reused)
    ending,          \* end_session calls suspended in get_session_summary
    result,          \* what the last agent/route call returned
    graded,          \* last call of _check_answer_correctness: inputs and output
    delayed,         \* last call of _calculate_auto_advance_delay: inputs and output
    scraping_status, \* assessments.scraping_status: certification code -> ScrapingStatus
    assessment_cache,\* assessments.assessment_cache: certification code -> assessment
    jobs,            \* background tasks _background_generate_assessment
    responses,       \* responses of POST /{code}/generate, in order
    observed,        \* what the last GET /{code}/generate/status returned
    fetches,         \* the requests GET /{code}: their code, position and response
    files,           \* audio cache directory: cache key -> [payload, mtime]
    clock,           \* file-system time stamp of the next write
    written,         \* the number of bytes handed to _cache_audio so far
    cache_result,    \* what the last cache operation returned
    speech,          \* the calls of text_to_speech: their key, position and result
    session_questions, \* QuestionRandomizer.session_questions: session id -> used ids
    randomized,      \* last call of randomize_assessment_for_session: inputs and output
    keyed,           \* two audio requests and the cache keys computed for them
    availability     \* last call of _get_available_questions: inputs and output

varsSession == <<sessions, assessments, user_answers, openai_service, suspended,
                 next_session, ending, result>>
varsRandomizer == <<session_questions, randomized>>
varsFunctions == <<keyed, availability>>
varsPure == <<graded, delayed, varsRandomizer, varsFunctions>>
varsTracker == <<scraping_status, assessment_cache, jobs, responses, observed, fetches>>
varsCache == <<files, clock, written, cache_result, speech>>
vars == <<varsSession, varsPure, varsTracker, varsCache>>

-----------------------------------------------------------------------------
(* Bounds of the model *)

MaxQuestions == 2
MaxSessions == 1
MaxAnswers == 4
MaxSuspended == 2
MaxOverrun == 1
MaxGradeIds == 3
MaxGradeLen == 3
MaxExplanationUnits == 30
MaxRequests == 4
MaxJobs == 3
MaxCacheBytes == 10
MaxCacheKeys == 3
MaxClock == 1
MaxWritten == 18
MaxPool == 4
MaxCount == 3
MaxParamLen == 1
MaxKeyed == 2
MaxCalls == 2
MaxFetches == 2
MaxStoreRequests == 2
MaxAvailabilityPool == 40
MaxUsed == 42

-----------------------------------------------------------------------------
(* Small helpers *)

Max(a, b) == IF a >= b THEN a ELSE b

Min(a, b) == IF a <= b THEN a ELSE b

Range(seq) == {seq[i] : i \in DOMAIN seq}

SeqsUpTo(S, n) == UNION {[1..k -> S] : k \in 0..n}

NoDuplicates(seq) == \A i, j \in DOMAIN seq : seq[i] = seq[j] => i = j

-----------------------------------------------------------------------------
(* Data: questions and assessments (app/models/schemas.py) *)

QuestionTypes == {"multiple_choice", "multiple_select", "true_false",
                  "drag_drop", "case_study", "hotspot"}

\* The value of a missing optional / of "no question".
NoQuestion == <<>>

\* Assessment a (0..MaxQuestions) holds a questions; question i of assessment a
\* has the id <<a, i>> (ids are uuid-derived, hence unique across assessments).
AssessmentIds == 0..MaxQuestions

QuestionIds == {<<a, i>> : a \in AssessmentIds, i \in 1..MaxQuestions} \
               {<<a, i>> \in AssessmentIds \X (1..MaxQuestions) : i > a}

\* The fields of question <<a, i>> the agent reads. Odd questions are single
\* choice with correct answer 1 and no explanation; even questions are case
\* studies with correct answer 2 and a 1000-character explanation.
Question(qid) ==
    [id |-> qid,
     question_type |-> IF qid[2] % 2 = 1 THEN "multiple_choice" ELSE "case_study",
     correct_answer_ids |-> IF qid[2] % 2 = 1 THEN <<1>> ELSE <<2>>,
     explanation_length |-> IF qid[2] % 2 = 1 THEN 0 ELSE 1000]

\* PracticeAssessment.questions of assessment a.
Questions(a) == [i \in 1..a |-> Question(<<a, i>>)]

\* total_questions == len(questions) (validator validate_total_questions).
TotalQuestions(a) == Len(Questions(a))

\* UserSession as start_session builds it.
NewSession(a, auto) ==
    [assessment_id |-> a,
     current_question_index |-> 0,
     answered_questions |-> <<>>,
     score |-> 0,
     is_completed |-> FALSE,
     auto_progression_enabled |-> auto]

\* The submissions the session model draws from: none, answer 1, answer 2.
Selections == {<<>>, <<1>>, <<2>>}

-----------------------------------------------------------------------------
(* QuestionFlowAgent: pure helpers (app/services/ai_agent.py) *)

\* seq without the first occurrence of x.
RemoveFirst(seq, x) ==
    LET i == CHOOSE k \in DOMAIN seq : seq[k] = x /\ \A j \in 1..(k - 1) : seq[j] # x
    IN  SubSeq(seq, 1, i - 1) \o SubSeq(seq, i + 1, Len(seq))

\* Python's sorted() on a list of ids: the same elements, duplicates kept, ascending.
RECURSIVE Sorted(_)
Sorted(seq) ==
    IF seq = <<>> THEN <<>>
    ELSE LET m == CHOOSE x \in Range(seq) : \A y \in Range(seq) : x <= y
         IN  <<m>> \o Sorted(RemoveFirst(seq, m))

\* _check_answer_correctness: sorted(selected) == sorted(correct), as lists.
CheckAnswerCorrectness(correct_answer_ids, selected_answer_ids) ==
    Sorted(selected_answer_ids) = Sorted(correct_answer_ids)

BaseDelay == 3
MinReadingTime == 3
WordsPerMinute == 200
CharsPerWord == 5
IncorrectExtra == 2
ComplexExtra == 3
MaxDelay == 15

\* get_session_summary asks for study tips with more answers than this.
StudyTipsMinAnswers == 3

\* int(max(3, len(explanation) / (200 * 5))), added only when the explanation
\* is not empty; int() of a non-negative float is its floor.
ReadingTime(explanation_length) ==
    IF explanation_length > 0
    THEN Max(MinReadingTime, explanation_length \div (WordsPerMinute * CharsPerWord))
    ELSE 0

\* _calculate_auto_advance_delay
CalculateAutoAdvanceDelay(explanation_length, question_type, is_correct) ==
    Min(BaseDelay
          + ReadingTime(explanation_length)
          + (IF is_correct THEN 0 ELSE IncorrectExtra)
          + (IF question_type \in {"case_study", "drag_drop"} THEN ComplexExtra ELSE 0),
        MaxDelay)

\* _determine_next_action: "this was the last question" is decided from the
\* session's current_question_index, not from the question passed in.
IsLastQuestion(session) ==
    session.current_question_index >= TotalQuestions(session.assessment_id) - 1

DetermineNextAction(session, question, is_correct) ==
    IF IsLastQuestion(session)
    THEN [action |-> "complete_assessment", delay_seconds |-> -1]
    ELSE IF session.auto_progression_enabled
         THEN [action |-> "auto_advance",
               delay_seconds |-> CalculateAutoAdvanceDelay(
                   question.explanation_length, question.question_type, is_correct)]
         ELSE [action |-> "manual_advance", delay_seconds |-> -1]

\* Every question id taken as one of the assessment.
HasQuestionAlways(a, question_id) == TRUE

\* Whether assessment a holds a question with the given id
\* (next((q for q in assessment.questions if q.id == question_id), None)).
HasQuestion(a, question_id) ==
    \E i \in 1..TotalQuestions(a) : Questions(a)[i].id = question_id

\* A float percentage part / whole * 100, kept as its integer part.
Percentage(part, whole) == (part * 100) \div whole

\* get_session_progress on a stored session: the snapshot, or no snapshot when
\* the division by total_questions raises (ZeroDivisionError, caught: None).
SessionProgress(session) ==
    LET total == TotalQuestions(session.assessment_id)
        answered == Len(session.answered_questions)
    IN  IF total = 0
        THEN [has_snapshot |-> FALSE, total_questions |-> total,
              answered_questions |-> answered,
              percentage_complete |-> -1, score_percentage |-> -1]
        ELSE [has_snapshot |-> TRUE, total_questions |-> total,
              answered_questions |-> answered,
              percentage_complete |-> Percentage(answered, total),
              score_percentage |-> IF answered > 0
                                   THEN Percentage(session.score, answered)
                                   ELSE 0]

NoProgress ==
    [has_snapshot |-> FALSE, total_questions |-> -1, answered_questions |-> -1,
     percentage_complete |-> -1, score_percentage |-> -1]

\* The shape of every call result; fields a call does not return keep these values.
Result(op, sid, status) ==
    [op |-> op, sid |-> sid, status |-> status,
     returned |-> NoQuestion, is_correct |-> FALSE,
     action |-> "none", delay_seconds |-> -1, progress |-> NoProgress]

-----------------------------------------------------------------------------
(* QuestionFlowAgent and the session routes: operations *)

SessionIds == 1..MaxSessions

NoCall == [sid |-> 0, question_id |-> NoQuestion]

UnchangedOthers == UNCHANGED <<varsPure, varsTracker, varsCache>>

\* The submit_answer calls of session sid that are suspended.
SuspendedFor(sid) == {c \in DOMAIN suspended : suspended[c].sid = sid}

\* start_session: store the assessment, create the session and its empty
\* answer list under a fresh session id. No check of the question count.
StartSession(a, auto) ==
    /\ next_session < MaxSessions
    /\ LET sid == next_session + 1
       IN  /\ next_session' = sid
           /\ assessments' = assessments \cup {a}
           /\ sessions' = [s \in DOMAIN sessions \cup {sid} |->
                             IF s = sid THEN NewSession(a, auto) ELSE sessions[s]]
           /\ user_answers' = [s \in DOMAIN user_answers \cup {sid} |->
                                 IF s = sid THEN <<>> ELSE user_answers[s]]
           /\ result' = Result("start_session", sid, "ok")
    /\ UNCHANGED <<openai_service, suspended, ending>>
    /\ UnchangedOthers

\* Every None return read as "not found".
NoneReadAsNotFound(known_and_completed) == "not_found"

\* The route's reading of a None return of get_current_question (sessions.py
\* lines 91-103): "Assessment completed" when the session exists and is
\* completed, 404 otherwise.
NoneReadAs(known_and_completed) ==
    IF known_and_completed THEN "completed" ELSE "not_found"

\* The check taken one question too early.
NoQuestionAtLast(index, total) == index + 1 >= total

\* "session.current_question_index >= len(assessment.questions)" (lines 109
\* and 234): no question is left at the index.
NoQuestionAt(index, total) == index >= total

\* get_current_question, with the route's reading of a None return: 404 for an
\* unknown session, "Assessment completed" for a session past its last question.
GetCurrentQuestion(sid) ==
    /\ IF sid \notin DOMAIN sessions
       THEN /\ result' = Result("get_current_question", sid, NoneReadAs(FALSE))
            /\ UNCHANGED sessions
       ELSE LET session == sessions[sid]
                a == session.assessment_id
            IN  IF NoQuestionAt(session.current_question_index, TotalQuestions(a))
                THEN /\ sessions' = [sessions EXCEPT ![sid].is_completed = TRUE]
                     /\ result' = Result("get_current_question", sid, NoneReadAs(TRUE))
                ELSE /\ UNCHANGED sessions
                     /\ result' = [Result("get_current_question", sid, "ok") EXCEPT
                                     !.returned =
                                       Questions(a)[session.current_question_index + 1].id]
    /\ UNCHANGED <<assessments, user_answers, openai_service, suspended, next_session,
                   ending>>
    /\ UnchangedOthers

\* A plausible slip: every submission counts as a first answer.
IsFirstAnswerAlways(session, question_id) == TRUE

\* "if question_id not in session.answered_questions" (line 183).
IsFirstAnswer(session, question_id) ==
    question_id \notin Range(session.answered_questions)

\* Every first answer counted, correct or not.
ScoreGainAnyFirst(first, is_correct) == IF first THEN 1 ELSE 0

\* "if is_correct: session.score += 1" inside the first-answer branch (lines
\* 185-186).
ScoreGain(first, is_correct) == IF first /\ is_correct THEN 1 ELSE 0

\* The part of submit_answer after the explanation is known (lines 170-202):
\* append the UserAnswer, update the session, compute the next action and the
\* progress. user_answers[session_id] raises KeyError when the session was ended
\* while the call was suspended; nothing has been written then.
FinishSubmit(sid, question_id, is_correct, session) ==
    IF sid \notin DOMAIN user_answers
    THEN /\ result' = Result("submit_answer", sid, "error")
         /\ UNCHANGED <<sessions, user_answers>>
    ELSE LET first == IsFirstAnswer(session, question_id)
             updated == [session EXCEPT
                           !.answered_questions =
                               IF first THEN Append(@, question_id) ELSE @,
                           !.score = @ + ScoreGain(first, is_correct)]
             next == DetermineNextAction(updated, Question(question_id), is_correct)
         IN  /\ user_answers' = [user_answers EXCEPT ![sid] = Append(@,
                                   [question_id |-> question_id,
                                    is_correct |-> is_correct])]
             /\ sessions' = [sessions EXCEPT ![sid] = updated]
             /\ result' = [Result("submit_answer", sid, "ok") EXCEPT
                             !.is_correct = is_correct,
                             !.action = next.action,
                             !.delay_seconds = next.delay_seconds,
                             !.progress = SessionProgress(updated)]

\* Whether submit_answer awaits enhance_question_explanation (line 162).
AwaitsExplanation(is_correct) == openai_service /\ ~is_correct

\* A completed session treated as locked: its submissions are refused too.
SubmitRejectsCompleted(sid, question_id) ==
    \/ sid \notin DOMAIN sessions
    \/ ~HasQuestion(sessions[sid].assessment_id, question_id)
    \/ sessions[sid].is_completed

\* The lookups of submit_answer (lines 144-155): the session or the question
\* is missing. Nothing else refuses a submission.
SubmitRejects(sid, question_id) ==
    \/ sid \notin DOMAIN sessions
    \/ ~HasQuestion(sessions[sid].assessment_id, question_id)

\* QuestionFlowAgent.submit_answer up to its only suspension point, or to its end
\* when it does not suspend.
AgentSubmit(sid, question_id, selected_answer_ids) ==
    IF SubmitRejects(sid, question_id)
    THEN \* ValueError("Session ... not found") / ValueError("Question ... not found")
         /\ result' = Result("submit_answer", sid, "not_found")
         /\ UNCHANGED <<sessions, user_answers, suspended>>
    ELSE LET question == Question(question_id)
             is_correct == CheckAnswerCorrectness(question.correct_answer_ids,
                                                  selected_answer_ids)
         IN  /\ Len(user_answers[sid]) + Cardinality(SuspendedFor(sid)) < MaxAnswers
             /\ IF AwaitsExplanation(is_correct)
                THEN /\ \E c \in DOMAIN suspended :
                          /\ suspended[c] = NoCall
                          /\ \A d \in 1..(c - 1) : suspended[d] # NoCall
                          /\ suspended' = [suspended EXCEPT ![c] =
                                 [sid |-> sid, question_id |-> question_id]]
                     /\ UNCHANGED <<sessions, user_answers, result>>
                ELSE /\ FinishSubmit(sid, question_id, is_correct, sessions[sid])
                     /\ UNCHANGED suspended

\* A direct call of QuestionFlowAgent.submit_answer.
SubmitAnswer(sid, question_id, selected_answer_ids) ==
    /\ AgentSubmit(sid, question_id, selected_answer_ids)
    /\ UNCHANGED <<assessments, openai_service, next_session, ending>>
    /\ UnchangedOthers

\* The route's check of the submission (sessions.py line 137).
RouteRejects(selected_answer_ids) == selected_answer_ids = <<>>

\* POST /{session_id}/submit-answer: 400 for an empty selection, else the agent.
RouteSubmitAnswer(sid, question_id, selected_answer_ids) ==
    /\ IF RouteRejects(selected_answer_ids)
       THEN /\ result' = Result("submit_answer", sid, "validation_error")
            /\ UNCHANGED <<sessions, user_answers, suspended>>
       ELSE AgentSubmit(sid, question_id, selected_answer_ids)
    /\ UNCHANGED <<assessments, openai_service, next_session, ending>>
    /\ UnchangedOthers

\* enhance_question_explanation returns or raises (the exception is caught on
\* line 166): the suspended call runs to its end. It holds the session object it
\* looked up before suspending; a suspended call was graded incorrect.
ResumeSubmit(c) ==
    /\ suspended[c] # NoCall
    /\ LET call == suspended[c]
       IN  FinishSubmit(call.sid, call.question_id, FALSE,
                        IF call.sid \in DOMAIN sessions
                        THEN sessions[call.sid]
                        ELSE NewSession(0, FALSE))
    /\ suspended' = [suspended EXCEPT ![c] = NoCall]
    /\ UNCHANGED <<assessments, openai_service, next_session, ending>>
    /\ UnchangedOthers

\* advance_to_next_question: the index is incremented unconditionally, then
\* compared with the question count.
AdvanceToNextQuestion(sid) ==
    /\ IF sid \notin DOMAIN sessions
       THEN /\ result' = Result("advance", sid, "not_found")
            /\ UNCHANGED sessions
       ELSE LET session == sessions[sid]
                a == session.assessment_id
                index == session.current_question_index + 1
            IN  /\ index <= TotalQuestions(a) + MaxOverrun
                /\ IF NoQuestionAt(index, TotalQuestions(a))
                   THEN /\ sessions' = [sessions EXCEPT
                                          ![sid].current_question_index = index,
                                          ![sid].is_completed = TRUE]
                        /\ result' = Result("advance", sid, "completed")
                   ELSE /\ sessions' = [sessions EXCEPT
                                          ![sid].current_question_index = index]
                        /\ result' = [Result("advance", sid, "ok") EXCEPT
                                        !.returned = Questions(a)[index + 1].id]
    /\ UNCHANGED <<assessments, user_answers, openai_service, suspended, next_session,
                   ending>>
    /\ UnchangedOthers

\* get_session_progress, and the route's 404 when it returns None.
GetSessionProgress(sid) ==
    /\ IF sid \notin DOMAIN sessions
       THEN result' = Result("get_session_progress", sid, "not_found")
       ELSE LET progress == SessionProgress(sessions[sid])
            IN  result' = [Result("get_session_progress", sid,
                                  IF progress.has_snapshot THEN "ok" ELSE "no_snapshot")
                             EXCEPT !.progress = progress]
    /\ UNCHANGED <<sessions, assessments, user_answers, openai_service, suspended,
                   next_session, ending>>
    /\ UnchangedOthers

\* PUT /{session_id}/settings
UpdateSessionSettings(sid, auto) ==
    /\ IF sid \notin DOMAIN sessions
       THEN /\ result' = Result("update_settings", sid, "not_found")
            /\ UNCHANGED sessions
       ELSE /\ sessions' = [sessions EXCEPT ![sid].auto_progression_enabled = auto]
            /\ result' = Result("update_settings", sid, "ok")
    /\ UNCHANGED <<assessments, user_answers, openai_service, suspended, next_session,
                   ending>>
    /\ UnchangedOthers

\* The answer history left as it is when a session is ended.
HistoryKept(sid) == user_answers

\* "del ai_agent.user_answers[session_id]" when the entry is there (sessions.py
\* lines 365-366).
HistoryAfterEnd(sid) == [s \in DOMAIN user_answers \ {sid} |-> user_answers[s]]

\* get_session_summary suspends only at generate_study_tips (lines 337-339):
\* with the OpenAI service configured and more than StudyTipsMinAnswers answers.
SummaryAwaitsStudyTips(sid) ==
    /\ openai_service
    /\ sid \in DOMAIN user_answers
    /\ Len(user_answers[sid]) > StudyTipsMinAnswers

\* GET /{session_id}/summary: 404 when the agent reports an error. The call
\* writes nothing, before or after its suspension.
GetSessionSummary(sid) ==
    /\ result' = Result("get_session_summary", sid,
                        IF sid \in DOMAIN sessions THEN "ok" ELSE "not_found")
    /\ UNCHANGED <<sessions, assessments, user_answers, openai_service, suspended,
                   next_session, ending>>
    /\ UnchangedOthers

\* DELETE /{session_id} when the summary does not suspend: 404 for an unknown
\* session, else both entries removed.
EndSession(sid) ==
    /\ ~(sid \in DOMAIN sessions /\ SummaryAwaitsStudyTips(sid))
    /\ IF sid \notin DOMAIN sessions
       THEN /\ result' = Result("end_session", sid, "not_found")
            /\ UNCHANGED <<sessions, user_answers>>
       ELSE /\ sessions' = [s \in DOMAIN sessions \ {sid} |-> sessions[s]]
            /\ user_answers' = HistoryAfterEnd(sid)
            /\ result' = Result("end_session", sid, "ok")
    /\ UNCHANGED <<assessments, openai_service, suspended, next_session, ending>>
    /\ UnchangedOthers

\* DELETE /{session_id} up to the suspension of its summary (lines 352-360).
BeginEndSession(sid) ==
    /\ sid \in DOMAIN sessions
    /\ SummaryAwaitsStudyTips(sid)
    /\ sid \notin ending
    /\ ending' = ending \cup {sid}
    /\ UNCHANGED <<sessions, assessments, user_answers, openai_service, suspended,
                   next_session, result>>
    /\ UnchangedOthers

\* The summary has returned (lines 362-372): each entry still stored is removed.
FinishEndSession(sid) ==
    /\ sid \in ending
    /\ ending' = ending \ {sid}
    /\ sessions' = [s \in DOMAIN sessions \ {sid} |-> sessions[s]]
    /\ user_answers' = HistoryAfterEnd(sid)
    /\ result' = Result("end_session", sid, "ok")
    /\ UNCHANGED <<assessments, openai_service, suspended, next_session>>
    /\ UnchangedOthers

\* The state of the other components while one component runs.
PureIdle ==
    /\ graded = [called |-> FALSE, correct_answer_ids |-> <<>>,
                 selected_answer_ids |-> <<>>, is_correct |-> FALSE]
    /\ delayed = [called |-> FALSE, explanation_length |-> 0,
                  question_type |-> "multiple_choice", is_correct |-> FALSE,
                  delay_seconds |-> -1]
    /\ session_questions = <<>>
    /\ randomized = [called |-> FALSE, pool |-> {}, count |-> 0, fresh |-> FALSE,
                     shuffle_answers |-> FALSE, fallback |-> FALSE, ids |-> {},
                     questions |-> {}]
    /\ keyed = <<>>
    /\ availability = [called |-> FALSE, total |-> 0, used |-> {}, available |-> {},
                       used_after |-> {}]

TrackerIdle ==
    /\ scraping_status = <<>>
    /\ assessment_cache = <<>>
    /\ jobs = <<>>
    /\ responses = <<>>
    /\ fetches = <<>>
    /\ observed = [code |-> "", found |-> FALSE, status |-> "idle",
                   progress_percentage |-> 0]

CacheIdle ==
    /\ files = <<>>
    /\ clock = 0
    /\ written = 0
    /\ cache_result = [op |-> "none", key |-> 0, payload |-> <<>>, evicted |-> {}]
    /\ speech = <<>>

\* QuestionFlowAgent.__init__: empty maps; openai_service is set when the
\* Azure OpenAI settings are present.
SessionInit ==
    /\ sessions = <<>>
    /\ assessments = {}
    /\ user_answers = <<>>
    /\ openai_service \in BOOLEAN
    /\ suspended = [c \in 1..MaxSuspended |-> NoCall]
    /\ next_session = 0
    /\ ending = {}
    /\ result = Result("none", 0, "none")

Init == SessionInit /\ PureIdle /\ TrackerIdle /\ CacheIdle

Next ==
    \/ \E a \in AssessmentIds, auto \in BOOLEAN : StartSession(a, auto)
    \/ \E sid \in SessionIds : GetCurrentQuestion(sid)
    \/ \E sid \in SessionIds, q \in QuestionIds, sel \in Selections :
          SubmitAnswer(sid, q, sel)
    \/ \E sid \in SessionIds, q \in QuestionIds, sel \in Selections :
          RouteSubmitAnswer(sid, q, sel)
    \/ \E c \in 1..MaxSuspended : ResumeSubmit(c)
    \/ \E sid \in SessionIds : AdvanceToNextQuestion(sid)
    \/ \E sid \in SessionIds : GetSessionProgress(sid)
    \/ \E sid \in SessionIds, auto \in BOOLEAN : UpdateSessionSettings(sid, auto)
    \/ \E sid \in SessionIds : GetSessionSummary(sid)
    \/ \E sid \in SessionIds : EndSession(sid)
    \/ \E sid \in SessionIds : BeginEndSession(sid)
    \/ \E sid \in SessionIds : FinishEndSession(sid)

Spec == Init /\ [][Next]_vars

-----------------------------------------------------------------------------
(* Claims about the session flow, checked under Spec *)

\* C1: currentQuestionIndex never decreases and never exceeds the number of
\* questions of the session's assessment (stated for the sessions whose
\* assessment holds at least one question, which every session started through
\* the routes does).
C1_IndexMonotoneAndBounded ==
    [][\A sid \in DOMAIN sessions' :
          /\ TotalQuestions(sessions'[sid].assessment_id) >= 1 =>
                sessions'[sid].current_question_index
                   <= TotalQuestions(sessions'[sid].assessment_id)
          /\ sid \in DOMAIN sessions =>
                sessions'[sid].current_question_index
                   >= sessions[sid].current_question_index]_vars

\* C3: a submission with no selected answer on a known session and question is
\* rejected as a validation error and leaves the session and the answer
\* history unchanged, through the route and through the agent itself.
C3_EmptySubmissionRejected ==
    [][\A sid \in DOMAIN sessions, q \in QuestionIds :
          (/\ HasQuestion(sessions[sid].assessment_id, q)
           /\ SubmitAnswer(sid, q, <<>>) \/ RouteSubmitAnswer(sid, q, <<>>))
          => /\ result'.status = "validation_error"
             /\ UNCHANGED <<sessions, user_answers>>]_vars

\* C4: a question id enters answered_questions at most once (the list never
\* holds an id twice and never loses one), and the score grows only by one and
\* only in the step in which an id enters the list; so resubmitting a question,
\* in sequence or from interleaved suspended calls, counts it and scores it once.
C4_AnsweredOnceScoredOnce ==
    [][\A sid \in DOMAIN sessions' :
          LET new == sessions'[sid]
          IN  /\ NoDuplicates(new.answered_questions)
              /\ sid \in DOMAIN sessions =>
                   LET old == sessions[sid]
                       n == Len(old.answered_questions)
                   IN  /\ Len(new.answered_questions) \in {n, n + 1}
                       /\ SubSeq(new.answered_questions, 1, n) = old.answered_questions
                       /\ new.score \in {old.score, old.score + 1}
                       /\ new.score > old.score =>
                             Len(new.answered_questions) = n + 1]_vars

\* C4 witness: one question submitted twice, both times correctly, counted once.
C4_Witness ==
    \E sid \in DOMAIN sessions :
        /\ Len(user_answers[sid]) = 2
        /\ user_answers[sid][1] = user_answers[sid][2]
        /\ user_answers[sid][1].is_correct
        /\ Len(sessions[sid].answered_questions) = 1
        /\ sessions[sid].score = 1

\* C5: every progress snapshot of a stored session exists, has a completion
\* percentage within 0..100, and a score percentage of 0 when nothing is answered.
C5_ProgressSnapshot ==
    (result.op = "get_session_progress" /\ result.status # "not_found")
    => /\ result.progress.has_snapshot
       /\ result.progress.percentage_complete >= 0
       /\ result.progress.percentage_complete <= 100
       /\ result.progress.answered_questions = 0 =>
             result.progress.score_percentage = 0

\* C10: an accepted submission of question q answers "complete_assessment"
\* exactly when q is the last question of the session's assessment, and
\* otherwise "auto_advance" or "manual_advance" according to the session setting.
C10_NextActionFollowsQuestion ==
    [][\A sid \in DOMAIN user_answers \cap DOMAIN user_answers' :
          Len(user_answers'[sid]) = Len(user_answers[sid]) + 1 =>
             LET q == user_answers'[sid][Len(user_answers'[sid])].question_id
                 session == sessions'[sid]
                 a == session.assessment_id
             IN  /\ result'.action = "complete_assessment"
                       <=> q = Questions(a)[TotalQuestions(a)].id
                 /\ result'.action # "complete_assessment" =>
                       result'.action = IF session.auto_progression_enabled
                                        THEN "auto_advance"
                                        ELSE "manual_advance"]_vars

\* C12: a completed session never becomes uncompleted while it exists, and a
\* submission for one of its questions and an advance on it are still accepted:
\* the submission is graded (or waits for its explanation) and the advance
\* answers "completed".
C12_CompletedIsTerminal ==
    [][/\ \A sid \in DOMAIN sessions \cap DOMAIN sessions' :
             sessions[sid].is_completed => sessions'[sid].is_completed
       /\ \A sid \in DOMAIN sessions :
             sessions[sid].is_completed =>
                /\ AdvanceToNextQuestion(sid) => result'.status = "completed"
                /\ \A q \in QuestionIds, sel \in Selections \ {<<>>} :
                      (/\ q \in {Questions(sessions[sid].assessment_id)[i].id :
                                   i \in 1..TotalQuestions(sessions[sid].assessment_id)}
                       /\ SubmitAnswer(sid, q, sel) \/ RouteSubmitAnswer(sid, q, sel))
                      => \/ result'.op = "submit_answer" /\ result'.status = "ok"
                         \/ suspended' # suspended]_vars

\* C12 witness: a submission was accepted on a session that is completed.
C12_Witness ==
    /\ result.op = "submit_answer"
    /\ result.status = "ok"
    /\ result.sid \in DOMAIN sessions
    /\ sessions[result.sid].is_completed
    /\ Len(user_answers[result.sid]) >= 1

\* C13: start_session on an assessment without questions fails as not found and
\* creates neither a session nor an answer history; a successful start creates
\* a session with index 0 and score 0.
C13_StartRejectsEmptyAssessment ==
    [][\A a \in AssessmentIds, auto \in BOOLEAN :
          StartSession(a, auto) =>
             IF TotalQuestions(a) = 0
             THEN /\ result'.status = "not_found"
                  /\ UNCHANGED <<sessions, user_answers>>
             ELSE /\ result'.status = "ok"
                  /\ sessions'[result'.sid].current_question_index = 0
                  /\ sessions'[result'.sid].score = 0]_vars

\* C14: a submission for an unknown session, or for a question that is not in
\* the session's assessment, fails as not found and changes no session and no
\* answer history (and starts no wait for an explanation).
C14_UnknownSubmissionChangesNothing ==
    [][\A sid \in SessionIds, q \in QuestionIds, sel \in Selections :
          (/\ \/ sid \notin DOMAIN sessions
              \/ q \notin {Questions(sessions[sid].assessment_id)[i].id :
                             i \in 1..TotalQuestions(sessions[sid].assessment_id)}
           /\ \/ SubmitAnswer(sid, q, sel)
              \/ sel # <<>> /\ RouteSubmitAnswer(sid, q, sel))
          => /\ result' = Result("submit_answer", sid, "not_found")
             /\ UNCHANGED <<sessions, user_answers, suspended>>]_vars

\* C14 witness: a submission was refused as not found on a stored session,
\* whose question was therefore not in its assessment.
C14_Witness ==
    /\ result.op = "submit_answer"
    /\ result.status = "not_found"
    /\ result.sid \in DOMAIN sessions

C16_AdvanceByOne ==
    [][\A sid \in DOMAIN sessions :
          (~sessions[sid].is_completed /\ AdvanceToNextQuestion(sid)) =>
             LET old == sessions[sid]
                 new == sessions'[sid]
                 a == old.assessment_id
             IN  /\ new.current_question_index = old.current_question_index + 1
                 /\ new.is_completed
                       <=> new.current_question_index = TotalQuestions(a)
                 /\ result'.status = "completed" <=> new.is_completed
                 /\ ~new.is_completed =>
                       /\ result'.status = "ok"
                       /\ result'.returned = Questions(a)[new.current_question_index + 1].id
                 /\ new.score = old.score
                 /\ new.answered_questions = old.answered_questions
                 /\ UNCHANGED user_answers]_vars

\* C17: ending a stored session removes the session and its answer history;
\* ending a session that is not stored reports no error and changes nothing.
C17_EndSessionSilent ==
    [][\A sid \in SessionIds :
          EndSession(sid) =>
             /\ result'.status = "ok"
             /\ sid \notin DOMAIN sessions'
             /\ sid \notin DOMAIN user_answers'
             /\ sid \notin DOMAIN sessions => UNCHANGED <<sessions, user_answers>>]_vars

-----------------------------------------------------------------------------
(* The grading function on its own: SpecGrade *)

\* correct_answer_ids of a question: a non-empty list of distinct answer ids.
CorrectLists ==
    {c \in SeqsUpTo(1..MaxGradeIds, MaxGradeLen) : c # <<>> /\ NoDuplicates(c)}

\* selected_answer_ids of a submission: any list of answer ids.
SelectedLists == SeqsUpTo(1..MaxGradeIds, MaxGradeLen)

\* One call of _check_answer_correctness.
Grade(correct_answer_ids, selected_answer_ids) ==
    /\ graded' = [called |-> TRUE,
                  correct_answer_ids |-> correct_answer_ids,
                  selected_answer_ids |-> selected_answer_ids,
                  is_correct |-> CheckAnswerCorrectness(correct_answer_ids,
                                                        selected_answer_ids)]
    /\ UNCHANGED <<varsSession, delayed, varsRandomizer, varsFunctions, varsTracker, varsCache>>

NextGrade == \E c \in CorrectLists, sel \in SelectedLists : Grade(c, sel)

SpecGrade == Init /\ [][NextGrade]_vars

\* C2: isCorrect is the equality of the submitted ids and the correct ids as
\* sets, whatever the order and the repetitions of the submitted ids.
C2_SetEquality ==
    graded.called =>
        (graded.is_correct
            <=> Range(graded.selected_answer_ids) = Range(graded.correct_answer_ids))

-----------------------------------------------------------------------------
(* The pacing delay on its own: SpecDelay *)

\* Explanation lengths in characters: 0, 500, 1000, ...
ExplanationLengths == {500 * k : k \in 0..MaxExplanationUnits}

\* One call of _calculate_auto_advance_delay.
Delay(explanation_length, question_type, is_correct) ==
    /\ delayed' = [called |-> TRUE,
                   explanation_length |-> explanation_length,
                   question_type |-> question_type,
                   is_correct |-> is_correct,
                   delay_seconds |-> CalculateAutoAdvanceDelay(
                       explanation_length, question_type, is_correct)]
    /\ UNCHANGED <<varsSession, graded, varsRandomizer, varsFunctions, varsTracker, varsCache>>

NextDelay ==
    \E len \in ExplanationLengths, t \in QuestionTypes, ok \in BOOLEAN :
        Delay(len, t, ok)

SpecDelay == Init /\ [][NextDelay]_vars

\* C9: the delay lies within 3..15; it is 3 for a correct single-choice answer
\* with no explanation and 15 for an incorrect case-study answer with a
\* 1000-character explanation.
C9_DelayFloorAndCeiling ==
    delayed.called =>
        /\ delayed.delay_seconds >= 3
        /\ delayed.delay_seconds <= 15
        /\ (/\ delayed.is_correct
            /\ delayed.question_type = "multiple_choice"
            /\ delayed.explanation_length = 0) => delayed.delay_seconds = 3
        /\ (/\ ~delayed.is_correct
            /\ delayed.question_type = "case_study"
            /\ delayed.explanation_length = 1000) => delayed.delay_seconds = 15

-----------------------------------------------------------------------------
(* Generation tracker: app/routers/assessments.py *)

\* Two of the certification codes of CERTIFICATION_EXAMS.
CertificationCodes == {"AZ-900", "AZ-104"}

\* ScrapingStatus as POST /{code}/generate initialises it (lines 121-126).
\* Percentages are the floats 0.0, 10.0, 50.0 and 100.0, kept as integers.
NewStatus ==
    [status |-> "in_progress", progress_percentage |-> 0,
     questions_scraped |-> 0, errors |-> <<>>]

\* dict assignment d[k] = v
Put(d, k, v) == [x \in DOMAIN d \cup {k} |-> IF x = k THEN v ELSE d[x]]

\* del d[k]
Remove(d, k) == [x \in DOMAIN d \ {k} |-> d[x]]

\* A plausible slip: the "already generating" check is dropped.
AlreadyGeneratingNever(code) == FALSE

\* Lines 110-112: an entry exists and its status is "in_progress".
AlreadyGenerating(code) ==
    /\ code \in DOMAIN scraping_status
    /\ scraping_status[code].status = "in_progress"

\* The background tasks of a certification code that have not ended.
RunningJobs(code) == {j \in DOMAIN jobs : jobs[j].code = code /\ jobs[j].pc # "done"}

\* POST /{code}/generate. The handler holds no await: the check of the status,
\* the write of the in_progress entry and add_task run without suspension.
GeneratePracticeAssessment(code) ==
    /\ Len(responses) < MaxRequests
    /\ IF AlreadyGenerating(code)
       THEN /\ responses' = Append(responses, [code |-> code, started |-> FALSE])
            /\ UNCHANGED <<scraping_status, jobs>>
       ELSE /\ Len(jobs) < MaxJobs
            /\ scraping_status' = Put(scraping_status, code, NewStatus)
            /\ jobs' = Append(jobs, [code |-> code, pc |-> "queued"])
            /\ responses' = Append(responses, [code |-> code, started |-> TRUE])
    /\ UNCHANGED <<assessment_cache, observed, fetches, varsSession, varsPure, varsCache>>

\* _background_generate_assessment from its start to the await of the generator
\* (lines 239-247): the progress is set to 10.0 and then 50.0. A missing entry
\* raises KeyError; the handler on line 265 then finds no entry and the task ends.
JobStart(j) ==
    /\ jobs[j].pc = "queued"
    /\ LET code == jobs[j].code
       IN  IF code \in DOMAIN scraping_status
           THEN /\ scraping_status' =
                      [scraping_status EXCEPT ![code].progress_percentage = 50]
                /\ jobs' = [jobs EXCEPT ![j].pc = "awaiting"]
           ELSE /\ jobs' = [jobs EXCEPT ![j].pc = "done"]
                /\ UNCHANGED scraping_status
    /\ UNCHANGED <<assessment_cache, responses, observed, fetches, varsSession, varsPure,
                   varsCache>>

\* The generator returned an assessment with n questions (lines 249-258). The
\* first write to a missing entry raises KeyError before the assessment is cached.
JobSucceed(j, n) ==
    /\ jobs[j].pc = "awaiting"
    /\ LET code == jobs[j].code
       IN  IF code \in DOMAIN scraping_status
           THEN /\ scraping_status' = [scraping_status EXCEPT
                      ![code].status = "completed",
                      ![code].progress_percentage = 100,
                      ![code].questions_scraped = n]
                /\ assessment_cache' =
                      Put(assessment_cache, code, [id |-> j, total_questions |-> n])
           ELSE UNCHANGED <<scraping_status, assessment_cache>>
    /\ jobs' = [jobs EXCEPT ![j].pc = "done"]
    /\ UNCHANGED <<responses, observed, fetches, varsSession, varsPure, varsCache>>

\* The error recorded and the status left as it is.
FailedSilently(entry, error) == [entry EXCEPT !.errors = Append(@, error)]

\* The two writes of a failure (lines 261-262 and 270-271).
Failed(entry, error) ==
    [entry EXCEPT !.status = "failed", !.errors = Append(@, error)]

\* The generator returned None (lines 259-263; it catches its own exceptions).
JobFail(j) ==
    /\ jobs[j].pc = "awaiting"
    /\ LET code == jobs[j].code
       IN  IF code \in DOMAIN scraping_status
           THEN scraping_status' =
                   [scraping_status EXCEPT
                       ![code] = Failed(@, "AI question generation failed")]
           ELSE UNCHANGED scraping_status
    /\ jobs' = [jobs EXCEPT ![j].pc = "done"]
    /\ UNCHANGED <<assessment_cache, responses, observed, fetches, varsSession, varsPure,
                   varsCache>>

\* DELETE /{code}/cache
ClearAssessmentCache(code) ==
    /\ assessment_cache' = Remove(assessment_cache, code)
    /\ scraping_status' = Remove(scraping_status, code)
    /\ UNCHANGED <<jobs, responses, observed, fetches, varsSession, varsPure, varsCache>>

\* Generation requests and their background tasks, without cache invalidation.
NextSingleFlight ==
    \/ \E code \in CertificationCodes : GeneratePracticeAssessment(code)
    \/ \E j \in DOMAIN jobs : JobStart(j)
    \/ \E j \in DOMAIN jobs, n \in 1..MaxQuestions : JobSucceed(j, n)
    \/ \E j \in DOMAIN jobs : JobFail(j)

SpecSingleFlight == Init /\ [][NextSingleFlight]_vars

\* The number of started=TRUE responses for a certification code.
StartedResponses(code) ==
    Cardinality({i \in DOMAIN responses :
                    responses[i].code = code /\ responses[i].started})

\* C6: of the generate requests for one code that arrive while no generation
\* of it has ended in between, exactly one is answered started=TRUE: every
\* started=TRUE response has its own task, at most one task of a code is
\* unfinished, and the entry is in_progress exactly while that task is.
C6_SingleFlight ==
    \A code \in CertificationCodes :
        /\ StartedResponses(code)
              = Cardinality({j \in DOMAIN jobs : jobs[j].code = code})
        /\ Cardinality(RunningJobs(code)) <= 1
        /\ AlreadyGenerating(code) <=> Cardinality(RunningJobs(code)) = 1

\* C6 witness: two requests for one code with no entry, the first started and
\* the second not, while the task of the first has not ended.
C6_Witness ==
    /\ Len(responses) >= 2
    /\ responses[1] = [code |-> "AZ-900", started |-> TRUE]
    /\ responses[2] = [code |-> "AZ-900", started |-> FALSE]
    /\ Cardinality(RunningJobs("AZ-900")) = 1

\* GET /{code}/generate/status: the entry of the code, or 404.
GetGenerationStatus(code) ==
    /\ observed' = IF code \in DOMAIN scraping_status
                   THEN [code |-> code, found |-> TRUE,
                         status |-> scraping_status[code].status,
                         progress_percentage |->
                             scraping_status[code].progress_percentage]
                   ELSE [code |-> code, found |-> FALSE, status |-> "idle",
                         progress_percentage |-> 0]
    /\ UNCHANGED <<scraping_status, assessment_cache, jobs, responses, fetches,
                   varsSession, varsPure, varsCache>>

\* Generation requests, their background tasks, status reads and cache
\* invalidation, in every interleaving the event loop allows: a handler runs
\* from one await to the next without interruption.
NextTracker ==
    \/ \E code \in CertificationCodes : GeneratePracticeAssessment(code)
    \/ \E j \in DOMAIN jobs : JobStart(j)
    \/ \E j \in DOMAIN jobs, n \in 1..MaxQuestions : JobSucceed(j, n)
    \/ \E j \in DOMAIN jobs : JobFail(j)
    \/ \E code \in CertificationCodes : GetGenerationStatus(code)
    \/ \E code \in CertificationCodes : ClearAssessmentCache(code)

SpecTracker == Init /\ [][NextTracker]_vars

\* The background tasks of a code that have started and have not ended.
InFlight(code) == {j \in DOMAIN jobs : jobs[j].code = code /\ jobs[j].pc = "awaiting"}

\* C18: at any time at most one generation task of a certification code has
\* started and not ended, whatever generate requests, status reads and cache
\* invalidations are interleaved with the tasks.
C18_OneJobPerKey ==
    \A code \in CertificationCodes : Cardinality(InFlight(code)) <= 1

\* The status of a code: "idle" when it has no entry.
StatusOf(status_map, code) ==
    IF code \in DOMAIN status_map THEN status_map[code].status ELSE "idle"

\* C19: an entry becomes completed or failed only from in_progress; a completed
\* or failed entry changes only by being removed or by being replaced with a
\* new in_progress entry at progress 0 when a generate request starts a task.
C19_StatusMachine ==
    [][\A code \in CertificationCodes :
          LET old == StatusOf(scraping_status, code)
              new == StatusOf(scraping_status', code)
          IN  /\ (new \in {"completed", "failed"} /\ new # old) => old = "in_progress"
              /\ (/\ old \in {"completed", "failed"}
                  /\ code \in DOMAIN scraping_status'
                  /\ scraping_status'[code] # scraping_status[code])
                 => /\ scraping_status'[code] = NewStatus
                    /\ Len(jobs') = Len(jobs) + 1]_vars

\* C20: the progress percentage of an entry is within 0..100, and from one
\* state to the next it does not decrease unless a generate request replaces
\* the entry.
C20_ProgressMonotone ==
    [][\A code \in DOMAIN scraping_status' :
          /\ scraping_status'[code].progress_percentage \in 0..100
          /\ (code \in DOMAIN scraping_status /\ Len(jobs') = Len(jobs)) =>
                scraping_status'[code].progress_percentage
                   >= scraping_status[code].progress_percentage]_vars

-----------------------------------------------------------------------------
(* Audio cache: app/services/azure_speech.py *)

\* Cache keys (md5 digests) and payloads. A payload is <<size in bytes, content>>;
\* the capacity max_audio_cache_size_mb * 1024 * 1024 is scaled to MaxCacheBytes.
CacheKeys == 1..MaxCacheKeys

PayloadSizes == {4, 5, 9}

\* One payload of each size, and a second payload of the smallest size with
\* other content.
Payloads == {<<size, "a">> : size \in PayloadSizes} \cup {<<4, "b">>}

\* What _get_cached_audio returns for a key with no file.
Miss == <<>>

Size(payload) == payload[1]

RECURSIVE SumSizes(_, _)
SumSizes(fs, keys) ==
    IF keys = {} THEN 0
    ELSE LET k == CHOOSE x \in keys : TRUE
         IN  Size(fs[k].payload) + SumSizes(fs, keys \ {k})

\* total_size = sum(f.stat().st_size for f in glob('*.mp3'))
TotalSize(fs) == SumSizes(fs, DOMAIN fs)

\* The orders cache_files.sort(key=st_mtime) can leave the files in: ascending
\* modification time, files of equal time in the order of the directory listing.
SortedByMtime(fs) ==
    {order \in [1..Cardinality(DOMAIN fs) -> DOMAIN fs] :
        /\ \A i, j \in DOMAIN order : order[i] = order[j] => i = j
        /\ \A i, j \in DOMAIN order : i < j => fs[order[i]].mtime <= fs[order[j]].mtime}

\* The loop stopping at the capacity instead of 80% of it.
UnderTargetAtCapacity(total) == total <= MaxCacheBytes

\* "if total_size <= max_size_bytes * 0.8: break" (line 627)
UnderTarget(total) == total * 10 <= MaxCacheBytes * 8

\* The deletion loop (lines 626-633) over the sorted files.
RECURSIVE DeleteOldest(_, _, _)
DeleteOldest(fs, order, total) ==
    IF order = <<>> \/ UnderTarget(total) THEN fs
    ELSE DeleteOldest(Remove(fs, Head(order)), Tail(order),
                      total - Size(fs[Head(order)].payload))

\* _cleanup_cache_if_needed on the directory fs, the sort having given order.
CleanupCacheIfNeeded(fs, order) ==
    IF TotalSize(fs) > MaxCacheBytes
    THEN DeleteOldest(fs, order, TotalSize(fs))
    ELSE fs

\* _get_cached_audio: the bytes of the file of the key, or None.
CachedAudio(fs, key) == IF key \in DOMAIN fs THEN fs[key].payload ELSE Miss

\* The directory after the file of the key is written (lines 594-596).
Written(fs, key, payload) == Put(fs, key, [payload |-> payload, mtime |-> clock])

\* _cache_audio: write the file, then clean up. One call runs to its end
\* before the next cache operation starts.
CacheAudio(key, payload) ==
    /\ written + Size(payload) <= MaxWritten
    /\ \E order \in SortedByMtime(Written(files, key, payload)) :
          files' = CleanupCacheIfNeeded(Written(files, key, payload), order)
    /\ written' = written + Size(payload)
    /\ cache_result' = [op |-> "put", key |-> key, payload |-> payload,
                        evicted |-> DOMAIN Written(files, key, payload) \ DOMAIN files']
    /\ UNCHANGED <<clock, speech, varsSession, varsPure, varsTracker>>

\* _get_cached_audio
GetCachedAudio(key) ==
    /\ cache_result' = [op |-> "get", key |-> key, payload |-> CachedAudio(files, key),
                        evicted |-> {}]
    /\ UNCHANGED <<files, clock, written, speech, varsSession, varsPure, varsTracker>>

\* Time passes: later writes get a later modification time.
Tick ==
    /\ clock < MaxClock
    /\ clock' = clock + 1
    /\ UNCHANGED <<files, written, cache_result, speech, varsSession, varsPure, varsTracker>>

NextCache ==
    \/ \E key \in CacheKeys, payload \in Payloads : CacheAudio(key, payload)
    \/ \E key \in CacheKeys : GetCachedAudio(key)
    \/ Tick

SpecCache == Init /\ [][NextCache]_vars

\* C7: after put(k, b) a get(k) returns b, and a get of a key with no entry
\* returns a miss.
C7_RoundTrip ==
    [][/\ \A key \in CacheKeys, payload \in Payloads :
             CacheAudio(key, payload) => CachedAudio(files', key) = payload
       /\ \A key \in CacheKeys :
             (GetCachedAudio(key) /\ key \notin DOMAIN files)
                => cache_result'.payload = Miss]_vars

\* C8 as stated: once the sizes inserted sum to more than the capacity, the
\* total stored size is at most 80% of the capacity.
C8_AlwaysUnderTarget ==
    written > MaxCacheBytes => TotalSize(files) * 10 <= MaxCacheBytes * 8

\* C8 as amended: after every insertion the total stored size is at most the
\* capacity; an insertion that brings the total above the capacity leaves at
\* most 80% of it; and no entry deleted by an insertion is newer than an entry
\* it retains.
C8_EvictionOldestFirst ==
    [][written' # written =>
          LET before == Written(files, cache_result'.key, cache_result'.payload)
          IN  /\ TotalSize(files') <= MaxCacheBytes
              /\ TotalSize(before) > MaxCacheBytes =>
                    TotalSize(files') * 10 <= MaxCacheBytes * 8
              /\ DOMAIN files' \subseteq DOMAIN before
              /\ \A kept \in DOMAIN files' : files'[kept] = before[kept]
              /\ \A deleted \in DOMAIN before \ DOMAIN files', kept \in DOMAIN files' :
                    before[deleted].mtime <= before[kept].mtime]_vars

\* C8 witness: an insertion that brought the total above the capacity has
\* deleted an older entry and retained another entry besides the new one.
C8_Witness ==
    /\ cache_result.op = "put"
    /\ written > MaxCacheBytes
    /\ cache_result.evicted # {}
    /\ cache_result.key \in DOMAIN files
    /\ Cardinality(DOMAIN files) >= 2

-----------------------------------------------------------------------------
(* Question randomizer: app/services/question_randomizer.py *)

\* The session ids the randomizer is called with.
RandomizerSessions == {"s1", "s2"}

\* A Question of the pool as the schema declares it: the difficulty is the
\* optional field "difficulty"; the schema has no field "difficulty_level".
PoolQuestion(i) ==
    [id |-> i,
     answers |-> <<1, 2, 3>>,
     correct_answer_ids |-> <<1 + (i % 3)>>,
     difficulty |-> IF i % 3 = 1 THEN "beginner"
                    ELSE IF i % 3 = 2 THEN "intermediate" ELSE "advanced"]

\* assessment.questions of a pool of n questions (ids are unique).
Pool(n) == {PoolQuestion(i) : i \in 1..n}

Ids(questions) == {q.id : q \in questions}

\* Reading an attribute a pydantic model does not declare raises AttributeError.
HasAttr(q, name) == name \in DOMAIN q

UsageThresholdPercent == 20

MinAvailable == 30

\* The rule without the reset: the unused questions, however few.
GetAvailableQuestionsNoReset(all_questions, used) ==
    IF all_questions = {} \/
       Cardinality(used) * 100 < UsageThresholdPercent * Cardinality(all_questions)
    THEN [available |-> all_questions, used |-> used]
    ELSE [available |-> {q \in all_questions : q.id \notin used}, used |-> used]

\* _get_available_questions: the questions to select from and the used ids of
\* the session afterwards (the reset on line 126 clears them).
GetAvailableQuestions(all_questions, used) ==
    IF all_questions = {} \/
       Cardinality(used) * 100 < UsageThresholdPercent * Cardinality(all_questions)
    THEN [available |-> all_questions, used |-> used]
    ELSE LET unused == {q \in all_questions : q.id \notin used}
         IN  IF Cardinality(unused) < MinAvailable
             THEN [available |-> all_questions, used |-> {}]
             ELSE [available |-> unused, used |-> used]

\* difficulty_targets (lines 146-150): int(count * 0.3), int(count * 0.5),
\* int(count * 0.2).
DifficultyTarget(difficulty, count) ==
    IF difficulty = "easy" THEN (count * 3) \div 10
    ELSE IF difficulty = "medium" THEN (count * 5) \div 10
    ELSE (count * 2) \div 10

\* random.sample(population, k): any k elements of the population.
Sample(population, k) == {s \in SUBSET population : Cardinality(s) = k}

\* The loop over the difficulties (lines 153-168) and the fill (lines 171-177):
\* the sets of questions the call can select.
RECURSIVE SelectByDifficulty(_, _, _, _)
SelectByDifficulty(remaining, selected, difficulties, count) ==
    IF difficulties = <<>>
    THEN LET needed == count - Cardinality(selected)
         IN  IF needed > 0 /\ remaining # {}
             THEN {selected \cup s :
                      s \in Sample(remaining, Min(needed, Cardinality(remaining)))}
             ELSE {selected}
    ELSE LET bucket == {q \in remaining : q.difficulty_level = Head(difficulties)}
             k == Min(DifficultyTarget(Head(difficulties), count), Cardinality(bucket))
         IN  UNION {SelectByDifficulty(remaining \ s, selected \cup s,
                                       Tail(difficulties), count) :
                       s \in Sample(bucket, k)}

\* _select_random_questions: the outcomes of one call. With more questions
\* than wanted, line 156 reads q.difficulty_level of every remaining question.
SelectRandomQuestions(available, count) ==
    IF Cardinality(available) <= count
    THEN {[raised |-> FALSE, questions |-> available]}
    ELSE IF \E q \in available : ~HasAttr(q, "difficulty_level")
    THEN {[raised |-> TRUE, questions |-> {}]}
    ELSE {[raised |-> FALSE, questions |-> s] :
             s \in SelectByDifficulty(available, {}, <<"easy", "medium", "hard">>, count)}

\* _shuffle_answer_options raises on the first question: line 201 reads
\* question.difficulty_level (and lines 203-204 category and tags).
ShuffleRaises(questions) ==
    \E q \in questions : ~HasAttr(q, "difficulty_level")

\* random.shuffle on a copy of question.answers (lines 191-192): any order of
\* the same answers. The Question built on lines 195-205 is given no
\* "difficulty", which is then None.
Shuffle(question) ==
    {[id |-> question.id, answers |-> shuffled_answers,
      correct_answer_ids |-> question.correct_answer_ids, difficulty |-> "None"] :
        shuffled_answers \in
            {a \in [DOMAIN question.answers -> Range(question.answers)] :
                Range(a) = Range(question.answers)}}

\* _shuffle_answer_options: the outcomes of one call.
ShuffleAnswerOptions(questions) ==
    IF ShuffleRaises(questions)
    THEN {[raised |-> TRUE, questions |-> {}]}
    ELSE {[raised |-> FALSE, questions |-> s] :
             s \in {x \in SUBSET (UNION {Shuffle(q) : q \in questions}) :
                       /\ Ids(x) = Ids(questions)
                       /\ Cardinality(x) = Cardinality(questions)}}

\* randomize_assessment_for_session for a pool of n questions. The sessions in
\* expired are those _cleanup_old_sessions finds older than 24 hours. Any
\* exception ends in the handler of line 95, which returns the assessment it
\* was given; what was written before the exception stays written.
RandomizeAssessmentForSession(n, session_id, count, shuffle_answers, expired) ==
    LET kept == [x \in DOMAIN session_questions \ expired |-> session_questions[x]]
        used == IF session_id \in DOMAIN kept THEN kept[session_id] ELSE {}
        got == GetAvailableQuestions(Pool(n), used)
        cleared == IF session_id \in DOMAIN kept
                   THEN Put(kept, session_id, got.used) ELSE kept
        Returned(fallback, questions) ==
            [called |-> TRUE, pool |-> Ids(Pool(n)), count |-> count,
             fresh |-> used = {}, shuffle_answers |-> shuffle_answers,
             fallback |-> fallback, ids |-> Ids(questions), questions |-> questions]
        Shuffled(out) ==
            IF shuffle_answers /\ ~out.raised
            THEN ShuffleAnswerOptions(out.questions) ELSE {out}
    IN  /\ \E selected \in SelectRandomQuestions(got.available, count) :
           \E out \in Shuffled(selected) :
              IF out.raised
              THEN /\ session_questions' = cleared
                   /\ randomized' = Returned(TRUE, Pool(n))
              ELSE /\ session_questions' =
                         Put(cleared, session_id,
                             (IF session_id \in DOMAIN cleared
                              THEN cleared[session_id] ELSE {})
                                \cup Ids(out.questions))
                   /\ randomized' = Returned(FALSE, out.questions)
        /\ UNCHANGED <<varsSession, graded, delayed, varsFunctions, varsTracker, varsCache>>

NextRandomizer ==
    \E n \in 0..MaxPool, session_id \in RandomizerSessions, count \in 1..MaxCount,
       shuffle_answers \in BOOLEAN, expired \in SUBSET DOMAIN session_questions :
        RandomizeAssessmentForSession(n, session_id, count, shuffle_answers, expired)

SpecRandomizer == Init /\ [][NextRandomizer]_vars

\* C11: with cleared bookkeeping the call returns min(count wanted, pool size)
\* distinct question ids, all of them ids of the pool.
C11_SelectsCountWanted ==
    (randomized.called /\ randomized.fresh) =>
        /\ randomized.ids \subseteq randomized.pool
        /\ Cardinality(randomized.ids)
              = Min(randomized.count, Cardinality(randomized.pool))

-----------------------------------------------------------------------------
(* The audio cache key: SpecCacheKey *)

\* Strings are sequences of characters; "_" is the character the key joins with.
Characters == {"a", "_"}

Strings == SeqsUpTo(Characters, MaxParamLen)

\* None, the default of the optional parameters.
None == <<"None">>

\* AudioRequest.output_format: the default and one other format.
OutputFormats == {"audio-16khz-32kbitrate-mono-mp3", "riff-24khz-16bit-mono-pcm"}

\* The requests: text is required, the voice, the rate and the pitch are
\* optional strings.
AudioRequests ==
    [text : Strings, voice_name : Strings \cup {None},
     speech_rate : {None, <<"a">>}, speech_pitch : {None, <<"_">>},
     output_format : OutputFormats]

\* What an f-string writes for a value: a string as it is, None as "None".
Format(value) == IF value = None THEN <<"N", "o", "n", "e">> ELSE value

\* _generate_cache_key: the string of line 563. The key is its MD5 digest,
\* taken here as free of collisions, so the string stands for the key.
GenerateCacheKey(text, voice_name, speech_rate, speech_pitch) ==
    Format(text) \o <<"_">> \o Format(voice_name) \o <<"_">>
        \o Format(speech_rate) \o <<"_">> \o Format(speech_pitch)

\* generate_audio_response: the key of a request (lines 203-208); the call of
\* text_to_speech (lines 192-197) computes the same one. output_format is not read.
GenerateAudioResponse(request) ==
    /\ Len(keyed) < MaxKeyed
    /\ keyed' = Append(keyed,
                       [request |-> request,
                        cache_key |-> GenerateCacheKey(request.text, request.voice_name,
                                                       request.speech_rate,
                                                       request.speech_pitch)])
    /\ UNCHANGED <<varsSession, graded, delayed, varsRandomizer, availability,
                   varsTracker, varsCache>>

NextCacheKey == \E request \in AudioRequests : GenerateAudioResponse(request)

SpecCacheKey == Init /\ [][NextCacheKey]_vars

\* C21: two requests get the same key exactly when their parameters (text,
\* voice, rate, pitch, format) are all the same.
C21_KeyInjective ==
    \A i, j \in DOMAIN keyed :
        (keyed[i].request = keyed[j].request) <=> (keyed[i].cache_key = keyed[j].cache_key)

-----------------------------------------------------------------------------
(* text_to_speech over the audio cache: SpecSpeech *)

\* The file of a key between aiofiles.open(cache_file, 'wb'), which creates or
\* truncates it, and the write: zero bytes.
Partial == <<0, "">>

\* What speak_ssml_async(ssml).get() can end in: the three branches of lines
\* 157-174 and an exception (line 176).
SynthesisOutcomes == {"completed", "canceled", "failed", "raised"}

\* Every outcome taken as audio to cache.
SynthesisStoresAlways(outcome) == TRUE

\* result.reason == SynthesizingAudioCompleted (line 157)
SynthesisStores(outcome) == outcome = "completed"

\* A call of text_to_speech for a key, at position pc; inode is the file the
\* call has open for writing.
Call(key, pc, outcome, audio_data, returned) ==
    [key |-> key, pc |-> pc, outcome |-> outcome, audio_data |-> audio_data,
     inode |-> 0, returned |-> returned]

\* Lines 144-178 after a miss: the synthesis blocks the event loop, so the call
\* runs from the miss to the await of _cache_audio, or to its return of None,
\* in one step. A cancelled or failed synthesis has no audio to cache.
Synthesize(key) ==
    {Call(key, IF SynthesisStores(outcome) THEN "opening" ELSE "done", outcome,
          IF outcome = "completed" THEN audio_data ELSE Partial, Miss) :
        outcome \in SynthesisOutcomes, audio_data \in Payloads}

\* text_to_speech up to its first suspension: cache_file.exists() (line 578)
\* and, for an existing file, the await of aiofiles.open.
TextToSpeech(key) ==
    /\ Len(speech) < MaxCalls
    /\ IF key \in DOMAIN files
       THEN speech' = Append(speech, Call(key, "reading", "none", Partial, Miss))
       ELSE \E call \in Synthesize(key) : speech' = Append(speech, call)
    /\ UNCHANGED <<files, clock, written, cache_result, varsSession, varsPure,
                   varsTracker>>

\* The read of the file (lines 579-580) and "if cached_audio" (line 140): a
\* file deleted since the check raises, which _get_cached_audio turns into
\* None, and an empty file reads as b'', which is not true either.
ReadCachedAudio(i) ==
    /\ speech[i].pc = "reading"
    /\ LET key == speech[i].key
           cached_audio == CachedAudio(files, key)
       IN  IF cached_audio # Miss /\ Size(cached_audio) > 0
           THEN speech' = [speech EXCEPT
                              ![i] = Call(key, "done", "none", Partial, cached_audio)]
           ELSE \E call \in Synthesize(key) : speech' = [speech EXCEPT ![i] = call]
    /\ UNCHANGED <<files, clock, written, cache_result, varsSession, varsPure,
                   varsTracker>>

\* aiofiles.open(cache_file, 'wb') (line 595): the file exists and is empty.
\* A file that is created belongs to the call that creates it.
OpenCacheFile(i) ==
    /\ speech[i].pc = "opening"
    /\ LET key == speech[i].key
           inode == IF key \in DOMAIN files THEN files[key].inode ELSE i
       IN  /\ files' = Put(files, key,
                           [payload |-> Partial, mtime |-> clock, inode |-> inode])
           /\ speech' = [speech EXCEPT ![i].pc = "writing", ![i].inode = inode]
    /\ UNCHANGED <<clock, written, cache_result, varsSession, varsPure, varsTracker>>

\* The bytes of a file after audio_data is written at its start.
Overlay(existing, audio_data) ==
    IF Size(audio_data) >= Size(existing) THEN audio_data
    ELSE <<Size(existing), "mixed">>

\* f.write(audio_data) and the close of the file (lines 595-596). The bytes
\* go to the file the call opened, whether or not the directory still has it.
WriteCacheFile(i) ==
    /\ speech[i].pc = "writing"
    /\ LET key == speech[i].key
       IN  IF key \in DOMAIN files /\ files[key].inode = speech[i].inode
           THEN files' = [files EXCEPT
                             ![key].payload = Overlay(@, speech[i].audio_data),
                             ![key].mtime = clock]
           ELSE files' = files
    /\ speech' = [speech EXCEPT ![i].pc = "cleaning"]
    /\ UNCHANGED <<clock, written, cache_result, varsSession, varsPure, varsTracker>>

\* _cleanup_cache_if_needed (line 599) and the return of audio_data (line 164).
CleanupAndReturn(i) ==
    /\ speech[i].pc = "cleaning"
    /\ \E order \in SortedByMtime(files) :
          files' = CleanupCacheIfNeeded(files, order)
    /\ speech' = [speech EXCEPT ![i].pc = "done", ![i].returned = speech[i].audio_data]
    /\ UNCHANGED <<clock, written, cache_result, varsSession, varsPure, varsTracker>>

NextSpeech ==
    \/ \E key \in CacheKeys : TextToSpeech(key)
    \/ \E i \in DOMAIN speech : ReadCachedAudio(i)
    \/ \E i \in DOMAIN speech : OpenCacheFile(i)
    \/ \E i \in DOMAIN speech : WriteCacheFile(i)
    \/ \E i \in DOMAIN speech : CleanupAndReturn(i)
    \/ Tick

SpecSpeech == Init /\ [][NextSpeech]_vars

\* The calls that hold synthesized audio for a key and have not returned.
Synthesized(key) ==
    {i \in DOMAIN speech :
        /\ speech[i].key = key
        /\ speech[i].pc \in {"opening", "writing", "cleaning"}}

\* C22: at most one caller at a time is between the miss and the end of the
\* put for a key, and no step replaces the bytes of an entry that has bytes.
C22_OneSynthesisPerKey ==
    /\ [](\A key \in CacheKeys : Cardinality(Synthesized(key)) <= 1)
    /\ [][\A key \in DOMAIN files \cap DOMAIN files' :
             Size(files[key].payload) > 0
                => files'[key].payload = files[key].payload]_vars

\* The outcomes of a synthesis that gave no audio.
SynthesisFailures == {"canceled", "failed", "raised"}

\* C23: the step in which a synthesis fails, is cancelled or raises returns
\* None and leaves every file as it is, and the call takes no further step, so
\* it writes no entry and deletes none.
C23_FailureLeavesCache ==
    /\ [][\A i \in DOMAIN speech' :
             (/\ speech'[i].outcome \in SynthesisFailures
              /\ i \in DOMAIN speech => speech[i].outcome = "none")
                => /\ files' = files
                   /\ speech'[i].pc = "done"
                   /\ speech'[i].returned = Miss]_vars
    /\ [](\A i \in DOMAIN speech :
             speech[i].outcome \in SynthesisFailures
                => speech[i].pc = "done" /\ speech[i].returned = Miss)

\* C23 witness: a call whose synthesis failed has returned while the cache
\* holds an entry with bytes.
C23_Witness ==
    \E i \in DOMAIN speech, key \in DOMAIN files :
        /\ speech[i].outcome \in SynthesisFailures
        /\ speech[i].pc = "done"
        /\ Size(files[key].payload) > 0

-----------------------------------------------------------------------------
(* The assessment store: GET /{code} next to the generation tasks, SpecStore *)

\* The assessment the generator returns to request i of GET /{code}: a new
\* object, told apart from the assessments of the background tasks by its id.
Fetched(i, n) == [id |-> 0 - i, total_questions |-> n]

\* GET /{code} up to the await of the generator (lines 51-67): a stored
\* assessment is returned at once.
GetPracticeAssessment(code) ==
    /\ Len(fetches) < MaxFetches
    /\ fetches' = Append(fetches,
          IF code \in DOMAIN assessment_cache
          THEN [code |-> code, pc |-> "done", status_code |-> 200,
                returned |-> assessment_cache[code]]
          ELSE [code |-> code, pc |-> "awaiting", status_code |-> 0,
                returned |-> Fetched(0, 0)])
    /\ UNCHANGED <<scraping_status, assessment_cache, jobs, responses, observed,
                   varsSession, varsPure, varsCache>>

\* The generator returned an assessment with n questions (lines 69-78): it is
\* stored without a second look at the store.
FetchSucceed(i, n) ==
    /\ fetches[i].pc = "awaiting"
    /\ assessment_cache' = Put(assessment_cache, fetches[i].code, Fetched(i, n))
    /\ fetches' = [fetches EXCEPT ![i].pc = "done", ![i].status_code = 200,
                                  ![i].returned = Fetched(i, n)]
    /\ UNCHANGED <<scraping_status, jobs, responses, observed, varsSession, varsPure,
                   varsCache>>

\* The generator returned None (lines 69-73): HTTP 500.
FetchFail(i) ==
    /\ fetches[i].pc = "awaiting"
    /\ fetches' = [fetches EXCEPT ![i].pc = "done", ![i].status_code = 500]
    /\ UNCHANGED <<scraping_status, assessment_cache, jobs, responses, observed,
                   varsSession, varsPure, varsCache>>

NextStore ==
    \/ \E code \in CertificationCodes : GetPracticeAssessment(code)
    \/ \E i \in DOMAIN fetches, n \in 1..MaxQuestions : FetchSucceed(i, n)
    \/ \E i \in DOMAIN fetches : FetchFail(i)
    \/ \E code \in CertificationCodes :
          Len(responses) < MaxStoreRequests /\ GeneratePracticeAssessment(code)
    \/ \E j \in DOMAIN jobs : JobStart(j)
    \/ \E j \in DOMAIN jobs, n \in 1..MaxQuestions : JobSucceed(j, n)
    \/ \E j \in DOMAIN jobs : JobFail(j)
    \/ \E code \in CertificationCodes : ClearAssessmentCache(code)

SpecStore == Init /\ [][NextStore]_vars

\* C24: while an assessment is stored for a code, no step other than the
\* invalidation of that code changes what is stored for it.
C24_CreatedOnce ==
    [][\A code \in DOMAIN assessment_cache \cap DOMAIN assessment_cache' :
          assessment_cache'[code] = assessment_cache[code]]_vars

-----------------------------------------------------------------------------
(* The availability rule of the randomizer on its own: SpecAvailability *)

\* One call of _get_available_questions for a pool of n questions and a
\* session whose used ids are 1..k (ids above n are ids of another pool). The
\* function reads nothing else, so a behaviour holds one call.
GetAvailable(n, k) ==
    /\ ~availability.called
    /\ LET got == GetAvailableQuestions(Pool(n), 1..k)
       IN  availability' = [called |-> TRUE, total |-> n, used |-> 1..k,
                            available |-> Ids(got.available),
                            used_after |-> got.used]
    /\ UNCHANGED <<varsSession, graded, delayed, varsRandomizer, keyed, varsTracker,
                   varsCache>>

NextAvailability ==
    \E n \in 0..MaxAvailabilityPool, k \in 0..MaxUsed : GetAvailable(n, k)

SpecAvailability == Init /\ [][NextAvailability]_vars

\* What the rule of C25 gives for a pool 1..total and a consumed set.
RuleHolds(total, used, available, used_after) ==
    LET pool == 1..total
        remaining == pool \ used
    IN  IF Cardinality(used) * 100 < 20 * total
        THEN available = pool /\ used_after = used
        ELSE IF Cardinality(remaining) < 30
        THEN available = pool /\ used_after = {}
        ELSE available = remaining /\ used_after = used

\* C25 as stated: the rule holds for every pool and every consumed set, and
\* the available set of a non-empty pool is not empty.
C25_AvailabilityRule ==
    availability.called =>
        /\ RuleHolds(availability.total, availability.used,
                     availability.available, availability.used_after)
        /\ availability.total > 0 => availability.available # {}

\* C25 as amended: the rule holds for every non-empty pool, whose available
\* set is never empty; for an empty pool nothing is available and the consumed
\* set is kept.
C25_AvailabilityRuleNonEmptyPool ==
    availability.called =>
        IF availability.total > 0
        THEN /\ RuleHolds(availability.total, availability.used,
                          availability.available, availability.used_after)
             /\ availability.available # {}
        ELSE /\ availability.available = {}
             /\ availability.used_after = availability.used

\* C25 witness: a call with at least 20% of the pool consumed and 30 or more
\* questions left, which excludes the consumed ids and keeps the consumed set.
C25_Witness ==
    /\ availability.called
    /\ Cardinality(availability.used) * 100 >= 20 * availability.total
    /\ availability.available = (1..availability.total) \ availability.used
    /\ availability.available # 1..availability.total
    /\ Cardinality(availability.available) >= 30
    /\ availability.used_after = availability.used

-----------------------------------------------------------------------------
(* Claims about the shuffle of the answers, checked under SpecRandomizer *)

-----------------------------------------------------------------------------
(* Invariants of the session stores, checked under Spec *)

\* The questions whose first UserAnswer in a history is correct.
FirstAnswersCorrect(history) ==
    {history[i].question_id : i \in
        {i \in DOMAIN history :
            /\ history[i].is_correct
            /\ \A j \in 1..(i - 1) : history[j].question_id # history[i].question_id}}

\* C27: the score of a session is the number of questions whose first
\* recorded answer in the history of the session is correct.
C27_ScoreCountsFirstAnswers ==
    \A sid \in DOMAIN sessions :
        sid \in DOMAIN user_answers =>
            sessions[sid].score = Cardinality(FirstAnswersCorrect(user_answers[sid]))

\* C27 witness: a question answered wrongly first and correctly afterwards,
\* and another one answered correctly at once: the score is 1.
C27_Witness ==
    \E sid \in DOMAIN sessions :
        /\ Len(user_answers[sid]) >= 3
        /\ user_answers[sid][1].question_id = user_answers[sid][2].question_id
        /\ ~user_answers[sid][1].is_correct
        /\ user_answers[sid][2].is_correct
        /\ user_answers[sid][3].question_id # user_answers[sid][1].question_id
        /\ user_answers[sid][3].is_correct
        /\ sessions[sid].score = 1

\* C28: a completed session has its index at or past the question count of
\* its assessment.
C28_CompletedPastLastQuestion ==
    \A sid \in DOMAIN sessions :
        sessions[sid].is_completed =>
            sessions[sid].current_question_index
                >= TotalQuestions(sessions[sid].assessment_id)

\* C28 witness: a session over two questions completed with its index at 2.
C28_Witness ==
    \E sid \in DOMAIN sessions :
        /\ sessions[sid].is_completed
        /\ TotalQuestions(sessions[sid].assessment_id) = 2
        /\ sessions[sid].current_question_index = 2

\* C29: the session store and the answer-history store have the same keys,
\* the assessment of every stored session is stored, and a submission that
\* resumes for a session that is no longer stored leaves both stores as they are.
C29_StoresInStep ==
    /\ [](/\ DOMAIN sessions = DOMAIN user_answers
          /\ \A sid \in DOMAIN sessions : sessions[sid].assessment_id \in assessments)
    /\ [][\A c \in DOMAIN suspended :
             (/\ suspended[c] # NoCall
              /\ suspended'[c] = NoCall
              /\ suspended[c].sid \notin DOMAIN sessions)
                => UNCHANGED <<sessions, user_answers>>]_vars

\* C29 witness: a submission has resumed after its session was ended and has
\* failed on the missing answer history, while no session is stored.
C29_Witness ==
    /\ result.op = "submit_answer"
    /\ result.status = "error"
    /\ next_session > 0
    /\ sessions = <<>>
    /\ user_answers = <<>>

-----------------------------------------------------------------------------
(* The generation tasks under fair scheduling: SpecGeneration *)

\* The generator raised (lines 265-271): the handler records str(e) when the
\* entry is still there.
JobRaise(j) ==
    /\ jobs[j].pc = "awaiting"
    /\ LET code == jobs[j].code
       IN  IF code \in DOMAIN scraping_status
           THEN scraping_status' =
                   [scraping_status EXCEPT ![code] = Failed(@, "str(e)")]
           ELSE UNCHANGED scraping_status
    /\ jobs' = [jobs EXCEPT ![j].pc = "done"]
    /\ UNCHANGED <<assessment_cache, responses, observed, fetches, varsSession, varsPure,
                   varsCache>>

\* The await of the generator ends: it returns an assessment, returns None or
\* raises.
JobEnd(j) ==
    \/ \E n \in 1..MaxQuestions : JobSucceed(j, n)
    \/ JobFail(j)
    \/ JobRaise(j)

NextGeneration ==
    \/ \E code \in CertificationCodes : GeneratePracticeAssessment(code)
    \/ \E j \in DOMAIN jobs : JobStart(j)
    \/ \E j \in DOMAIN jobs : JobEnd(j)
    \/ \E code \in CertificationCodes : ClearAssessmentCache(code)

\* The event loop runs every background task that was added, and the call of
\* the generator returns or raises.
SpecGeneration ==
    /\ Init
    /\ [][NextGeneration]_vars
    /\ \A j \in 1..MaxJobs :
          /\ WF_vars(j \in DOMAIN jobs /\ JobStart(j))
          /\ WF_vars(j \in DOMAIN jobs /\ JobEnd(j))

\* C30: an entry that is in_progress is later completed, failed or removed;
\* a task that ends while the entry of its code is stored either sets it to
\* completed and stores its assessment in the same step, or sets it to failed
\* and appends one error message.
C30_GenerationEnds ==
    /\ \A code \in CertificationCodes :
          AlreadyGenerating(code) ~> ~AlreadyGenerating(code)
    /\ [][\A j \in DOMAIN jobs :
             (/\ jobs[j].pc = "awaiting"
              /\ jobs'[j].pc = "done"
              /\ jobs[j].code \in DOMAIN scraping_status)
                => LET code == jobs[j].code
                   IN  \/ /\ scraping_status'[code].status = "completed"
                          /\ code \in DOMAIN assessment_cache'
                          /\ assessment_cache'[code].id = j
                          /\ scraping_status'[code].errors = scraping_status[code].errors
                       \/ /\ scraping_status'[code].status = "failed"
                          /\ Len(scraping_status'[code].errors)
                                = Len(scraping_status[code].errors) + 1
                          /\ UNCHANGED assessment_cache]_vars

\* C30 witness: one code has failed with an error message and the other is
\* completed with its assessment stored, and no task is unfinished.
C30_Witness ==
    /\ DOMAIN scraping_status = CertificationCodes
    /\ \E code \in CertificationCodes :
          /\ scraping_status[code].status = "failed"
          /\ Len(scraping_status[code].errors) = 1
    /\ \E code \in CertificationCodes :
          /\ scraping_status[code].status = "completed"
          /\ code \in DOMAIN assessment_cache
    /\ \A j \in DOMAIN jobs : jobs[j].pc = "done"

====
